---- MODULE Spec2Model ----
(***************************************************************************)
(* Plot manager of chia/plotting/manager.py: the on-disk key cache         *)
(* (Cache), the refresh loop (_refresh_task), the thread-pool              *)
(* pre-processing tasks (pre_process_file), memo decoding (process_memo),  *)
(* post-processing and publication (post_process_file, refresh_batch).     *)
(*                                                                         *)
(* Time is counted in ticks of 1/TicksPerSecond second, so that the        *)
(* truncations int(time.time()) and uint64(int(last_use)) are visible.     *)
(***************************************************************************)
EXTENDS Integers, Sequences, FiniteSets, TLC

None == "None"

\* ------------------------------------------------------------------ bounds
TicksPerSecond == 2
\* time.time() at construction, in ticks (any value larger than the interval)
Epoch == 7
\* the clock stops advancing after MaxTime ticks (a long pause is not a tick)
MaxTime == 6
\* how many times the environment (files, keys, start/stop, faults) acts
MaxEnv == 1

\* how many calls of start_refreshing() and stop_refreshing() a caller makes
MaxCalls == 2

\* ------------------------------------------------------- program constants
CURRENT_VERSION == 1
expiry_seconds == 7 * 24 * 60 * 60
\* PlotsRefreshParameter, as configured for the model: the retry backoff is
\* longer than the refresh interval, a batch is smaller than the file set
interval_seconds == 1
retry_invalid_seconds == 3
batch_size == 2

ExpiryTicks == expiry_seconds * TicksPerSecond
IntervalTicks == interval_seconds * TicksPerSecond
RetryTicks == retry_invalid_seconds * TicksPerSecond

\* ------------------------------------------------------------- file system
\* A path is <<directory, filename>>.
Paths == {<<"A", "x">>, <<"B", "x">>, <<"A", "y">>}
parent(p) == p[1]
name(p) == p[2]

\* What a file on disk is: absent; corrupt (stat or DiskProver() raises);
\* partial (opens, 97% of the expected size); full (opens, whole size);
\* badmemo (opens, whole size, its memo does not parse).
FileKinds == {"absent", "corrupt", "partial", "full", "badmemo"}
Opens(kind) == kind \in {"partial", "full", "badmemo"}
st_size(kind) == IF kind = "partial" THEN 97 ELSE 100
expected_size == 100
\* prover.get_size(): the k of the plot, a property of the plot (its filename)
get_size(n) == IF n = "x" THEN 32 ELSE 25

\* prover.get_memo() of a well-formed plot, by plot (filename)
get_memo(n) ==
    IF n = "x"
    THEN [pool |-> [g1 |-> "Kp"], farmer |-> "Kf", sk |-> "SKx", parses |-> TRUE]
    ELSE [pool |-> [ph |-> "PH"], farmer |-> "Kg", sk |-> "SKy", parses |-> TRUE]

FarmerKeys == {"Kf", "Kg"}
PoolKeys == {"Kp"}

Range(s) == {s[i] : i \in 1..Len(s)}
Min(a, b) == IF a < b THEN a ELSE b
\* int(t) for a time t in ticks: whole seconds, in ticks
int(t) == (t \div TicksPerSecond) * TicksPerSecond
\* the function f without the keys in S
Drop(f, S) == [k \in DOMAIN f \ S |-> f[k]]
\* the function f with key k set to v
Put(f, k, v) == [j \in DOMAIN f \cup {k} |-> IF j = k THEN v ELSE f[j]]
Empty == [k \in {} |-> None]

\* str(path) and Path(str), on the paths of the model
str(p) ==
    IF p = <<"A", "x">> THEN "A/x"
    ELSE IF p = <<"B", "x">> THEN "B/x"
    ELSE IF p = <<"A", "y">> THEN "A/y"
    ELSE "?"
Path(s) ==
    IF s = "A/x" THEN <<"A", "x">>
    ELSE IF s = "B/x" THEN <<"B", "x">>
    ELSE IF s = "A/y" THEN <<"A", "y">>
    ELSE <<"?", "?">>
\* the order in which a dict over paths is iterated
PathOrder == << <<"A", "x">>, <<"A", "y">>, <<"B", "x">> >>

\* DiskProver(str(path)), bytes(prover) and DiskProver.from_bytes(data)
\* The prover keeps the file name, the k and the memo it read from the header.
BadMemo == [pool |-> [ph |-> "?"], farmer |-> "?", sk |-> "?", parses |-> FALSE]
DiskProver(s, kind) ==
    [filename |-> s, size |-> get_size(name(Path(s))),
     memo |-> IF kind = "badmemo" THEN BadMemo ELSE get_memo(name(Path(s)))]
bytes(prover) == [filename |-> prover.filename, size |-> prover.size, memo |-> prover.memo]
from_bytes(data) == [filename |-> data.filename, size |-> data.size, memo |-> data.memo]

VARIABLES
    \* environment
    files,                      \* path -> FileKinds: the plot directories
    disk,                       \* the cache file: [exists, version, data]
    now,                        \* time.time(), in ticks
    env,                        \* how often the environment has acted
    \* configuration and keys
    open_no_key_filenames,
    match_str,
    plot_directories,           \* the configured plot directories, in their order
    farmer_public_keys,
    pool_public_keys,
    \* Cache
    cache_data,                 \* Cache._data: path -> CacheEntry
    cache_changed,              \* Cache._changed
    \* PlotManager
    plots,                      \* path -> PlotInfo
    plot_filename_paths,        \* filename -> <<directory, set of directories>>
    failed_to_open_filenames,   \* path -> int(time of the failure)
    no_key_filenames,
    last_refresh_time,
    refreshing_enabled,         \* _refreshing_enabled
    initial,                    \* _initial
    \* the refresh thread (_refresh_task) and its locals
    pc,
    plot_paths,
    total_result,
    batch_index,                \* position in the list pre_process_files returned
    batch_result,
    plots_refreshed,
    \* the thread pool
    futures,                    \* path -> "none", "queued" or a PreProcessingResult
    orphans,                    \* queued tasks of a cycle that ended before collecting them
    \* observer and history
    events,                     \* the events the callback got in this cycle
    outcome,                    \* path -> what this cycle's pre_process_file(path) did
    outcome_before,             \* the same, of the cycle before this one
    stable,                     \* no file, key or flag changed since plot_paths was read
    rerun,                      \* the cycle before this one completed, and nothing
                                \* changed since it read the same plot_paths
    before,                     \* the plot map when plot_paths was read
    failed_at,                  \* path -> time.time() of its failed open, until it is
                                \* opened; else 0
    save_failed,                \* a Cache.save() has failed
    stopped,                    \* the stop flag was set since plot_paths was read,
                                \* and before the cycle reported done
    raised,                     \* the exception handler ran since plot_paths was read
    no_key_before,              \* the no-key registry when plot_paths was read
    held,                       \* the locks the refresh thread holds
    observed,                   \* the paths the observer got in loaded lists and
                                \* not in a removed list since
    cold,                       \* plot map, registries and cache were empty when
                                \* plot_paths was read
    triggered,                  \* trigger_refresh() was called and no started event
                                \* was emitted since
    \* other threads
    reader,                     \* a thread is in "with self" of plot_count(): <<the plot
                                \* map and registries it found when it got the lock>>;
                                \* else <<>>
    duplicates_reader,          \* a thread is in the loop of get_duplicates(): <<the
                                \* duplicate registry it found when it began>>; else <<>>
    \* the threads of start_refreshing() and stop_refreshing()
    refresh_thread,             \* _refresh_thread: <<>> for None, or <<a thread>>
    threads,                    \* the threads created for _refresh_task, each
                                \* "created", "running" or "returned"
    callers,                    \* caller -> where it is in start_refreshing() or
                                \* stop_refreshing(), and the thread it joins
    calls                       \* caller -> how many calls it has made

cacheVars == <<cache_data, cache_changed, disk>>
cfgVars == <<open_no_key_filenames, match_str, plot_directories>>
keyVars == <<farmer_public_keys, pool_public_keys>>
mgrVars == <<plots, plot_filename_paths, failed_to_open_filenames, no_key_filenames>>
loopVars == <<plot_paths, total_result, batch_index, batch_result, plots_refreshed>>
cycleHist == <<outcome_before, rerun, before, stopped, triggered, cold, no_key_before>>
readerVars == <<reader, duplicates_reader>>
threadVars == <<refresh_thread, threads, callers, calls>>
vars == <<files, disk, now, env, open_no_key_filenames, match_str, plot_directories,
          farmer_public_keys,
          pool_public_keys, cache_data, cache_changed, plots, plot_filename_paths,
          failed_to_open_filenames, no_key_filenames, last_refresh_time,
          refreshing_enabled, initial, pc, plot_paths, total_result, batch_index,
          batch_result, plots_refreshed, futures, orphans, events, outcome,
          outcome_before, stable, rerun, before, failed_at, save_failed, stopped, raised, reader, duplicates_reader, triggered, cold,
          no_key_before, observed, held, refresh_thread, threads, callers, calls>>

\* ------------------------------------------------------------------- Cache
CacheEntry(prover, keys, last_use) ==
    [prover |-> prover, keys |-> keys, last_use |-> last_use]
DiskCacheEntry(prover_data, keys, last_use) ==
    [prover_data |-> prover_data, keys |-> keys, last_use |-> last_use]

\* CacheEntry.expired(expiry_seconds)
expired_always(entry, t) == TRUE
expired(entry, t) == t - entry.last_use > ExpiryTicks

\* Cache.update(path, entry): the new _data (the caller sets _changed)
Cache_update(data, path, entry) == Put(data, path, entry)

\* Cache.remove(cache_keys): <<_data, _changed>>
Cache_remove_assigns(data, changed, cache_keys) ==
    <<Drop(data, cache_keys), cache_keys \cap DOMAIN data # {}>>
Cache_remove(data, changed, cache_keys) ==
    <<Drop(data, cache_keys), changed \/ (cache_keys \cap DOMAIN data # {})>>

\* The list comprehension of Cache.save(): the entries in dict order, each
\* with str(path), bytes(prover) and uint64(int(last_use)).
RECURSIVE disk_cache_entries(_, _)
disk_cache_entries(data, i) ==
    IF i > Len(PathOrder) THEN <<>>
    ELSE LET p == PathOrder[i] IN
         (IF p \in DOMAIN data
          THEN << <<str(p), DiskCacheEntry(bytes(data[p].prover), data[p].keys,
                                           int(data[p].last_use))>> >>
          ELSE <<>>)
         \o disk_cache_entries(data, i + 1)

\* Cache.save(), when write_bytes succeeds: the bytes written
Cache_save_next_version(data) ==
    [exists |-> TRUE, version |-> CURRENT_VERSION + 1, data |-> disk_cache_entries(data, 1)]
Cache_save(data) ==
    [exists |-> TRUE, version |-> CURRENT_VERSION, data |-> disk_cache_entries(data, 1)]

\* Cache.load(): the new _data. A missing file (FileNotFoundError) and a
\* version other than CURRENT_VERSION (ValueError, caught below it) both
\* leave _data as it was.
Cache_load(file, data) ==
    IF ~file.exists THEN data
    ELSE IF file.version = CURRENT_VERSION
    THEN [p \in {Path(file.data[i][1]) : i \in 1..Len(file.data)} |->
            LET i == CHOOSE j \in 1..Len(file.data) :
                        Path(file.data[j][1]) = p
                           /\ \A l \in (j + 1)..Len(file.data) : Path(file.data[l][1]) # p
                e == file.data[i][2]
            IN CacheEntry(from_bytes(e.prover_data), e.keys, e.last_use)]
    ELSE data

\* ------------------------------------------------------------- PlotManager
PlotInfo(prover, pool_public_key, pool_contract_puzzle_hash, plot_public_key, file_size) ==
    [prover |-> prover, pool_public_key |-> pool_public_key,
     pool_contract_puzzle_hash |-> pool_contract_puzzle_hash,
     plot_public_key |-> plot_public_key, file_size |-> file_size]

\* PreProcessingResult(path, cache_entry, stat_info, prover, duration); the
\* cache entry is a reference into Cache._data, kept here as "there was one".
NoStat == -1
NoProver == [filename |-> "", size |-> 0, memo |-> BadMemo]
PreProcessingResult(cache_entry, stat_info, prover) ==
    [state |-> "done", cache_entry |-> cache_entry, stat_info |-> stat_info, prover |-> prover]
NoTask == [state |-> "none", cache_entry |-> FALSE, stat_info |-> NoStat, prover |-> NoProver]
Queued == [state |-> "queued", cache_entry |-> FALSE, stat_info |-> NoStat, prover |-> NoProver]

\* PlotManager.get_duplicates()
get_duplicates(pfp) == UNION {{<<d, f>> : d \in pfp[f][2]} : f \in DOMAIN pfp}

\* PlotManager.needs_refresh()
needs_refresh == now - last_refresh_time > IntervalTicks

\* "self.match_str not in filename_str" of pre_process_file
filtered_out(m, file_path) ==
    m # None /\ m \notin {parent(file_path), name(file_path), str(file_path)}

\* the retry test of pre_process_file
in_backoff_early(failed, file_path, t) ==
    file_path \in DOMAIN failed /\ t - failed[file_path] < RetryTicks - TicksPerSecond
in_backoff(failed, file_path, t) ==
    file_path \in DOMAIN failed /\ t - failed[file_path] < RetryTicks

\* "file_path in self.plots" of pre_process_file
already_published_never(pl, file_path) == FALSE
already_published(pl, file_path) == file_path \in DOMAIN pl

\* the duplicate test of pre_process_file
skip_duplicated(pfp, file_path) ==
    name(file_path) \in DOMAIN pfp /\ parent(file_path) \in pfp[name(file_path)][2]

\* the size test of pre_process_file: the file is assumed to be still copied
being_copied_never(k, size) == FALSE
being_copied(k, size) == k >= 30 /\ size * 100 < 98 * expected_size

\* PlotManager.pre_process_file(file_path), run by a pool thread at time now:
\* the result, the failure registry afterwards, and what was done.
pre_process_file(file_path) ==
    LET noop == PreProcessingResult(FALSE, NoStat, NoProver)
        same(what) == [result |-> noop, failed |-> failed_to_open_filenames, what |-> what]
        kind == files[file_path]
    IN  IF ~refreshing_enabled THEN same("stopped")
        ELSE IF filtered_out(match_str, file_path) THEN same("filtered")
        ELSE IF in_backoff(failed_to_open_filenames, file_path, now) THEN same("backoff")
        ELSE IF already_published(plots, file_path) THEN same("published")
        ELSE IF skip_duplicated(plot_filename_paths, file_path) THEN same("duplicate")
        ELSE IF ~Opens(kind)
        THEN [result |-> noop,
              failed |-> Put(failed_to_open_filenames, file_path, int(now)),
              what |-> "failed"]
        ELSE IF being_copied(get_size(name(file_path)), st_size(kind)) THEN same("small")
        ELSE [result |-> PreProcessingResult(file_path \in DOMAIN cache_data, st_size(kind),
                                             DiskProver(str(file_path), kind)),
              failed |-> failed_to_open_filenames,
              what |-> "opened"]

\* PlotManager.process_memo(file_path, memo): the CacheKeys (parse_plot_info
\* raises on a memo that does not parse: see starmap_raises below)
process_memo(memo) ==
    LET is_g1 == "g1" \in DOMAIN memo.pool
        pool_public_key == IF is_g1 THEN memo.pool.g1 ELSE None
        pool_contract_puzzle_hash == IF is_g1 THEN None ELSE memo.pool.ph
    IN  [farmer_public_key |-> memo.farmer,
         pool_public_key |-> pool_public_key,
         pool_contract_puzzle_hash |-> pool_contract_puzzle_hash,
         plot_public_key |-> <<memo.sk, memo.farmer, pool_contract_puzzle_hash # None>>]

\* the two key tests of post_process_file
farmer_key_missing_never(keys, farmer_keys) == FALSE
farmer_key_missing(keys, farmer_keys) == keys.farmer_public_key \notin farmer_keys
pool_key_missing(keys, pool_keys) ==
    keys.pool_public_key # None /\ keys.pool_public_key \notin pool_keys

\* "if file_path in self.no_key_filenames: remove" of post_process_file
passed_key_checks_kept(no_key, file_path) == no_key
passed_key_checks(no_key, file_path) == no_key \ {file_path}

\* "paths is not None" of post_process_file: the filename is already held
has_copy_never(pfp, fname) == FALSE
has_copy_of_any(pfp, fname) == DOMAIN pfp # {}
has_copy(pfp, fname) == fname \in DOMAIN pfp

\* "paths[1].add(...)" of post_process_file: one more directory holds a copy
add_duplicate_dropped(paths, dir) == <<paths[1], paths[2]>>
add_duplicate(paths, dir) == <<paths[1], paths[2] \cup {dir}>>

\* PlotManager.post_process_file(file_path, stat_info, cache_entry) at time t,
\* on the state m = [no_key, pfp, failed, cache, ...]; ret is <<>> for None.
post_process_file(m, file_path, stat_info, t) ==
    LET keys == m.cache[file_path].keys
        prover == m.cache[file_path].prover
        no_farmer == farmer_key_missing(keys, farmer_public_keys)
        nk1 == IF no_farmer THEN m.no_key \cup {file_path} ELSE m.no_key
        no_pool == pool_key_missing(keys, pool_public_keys)
        nk2 == IF no_pool THEN nk1 \cup {file_path} ELSE nk1
        nk3 == passed_key_checks(nk2, file_path)
        fname == name(file_path)
        dir == parent(Path(prover.filename))
    IN  IF no_farmer /\ ~open_no_key_filenames
        THEN [m EXCEPT !.no_key = nk1, !.ret = <<>>]
        ELSE IF no_pool /\ ~open_no_key_filenames
        THEN [m EXCEPT !.no_key = nk2, !.ret = <<>>]
        ELSE IF has_copy(m.pfp, fname)
        THEN [m EXCEPT !.no_key = nk3,
                       !.pfp[fname] = add_duplicate(@, dir),
                       !.ret = <<>>]
        ELSE [m EXCEPT !.no_key = nk3,
                       !.pfp = Put(@, fname, <<dir, {}>>),
                       !.cache[file_path].last_use = t,
                       !.failed = Drop(@, {file_path}),
                       !.ret = <<PlotInfo(prover, keys.pool_public_key,
                                          keys.pool_contract_puzzle_hash,
                                          keys.plot_public_key, stat_info)>>]

\* what refresh_batch does with the PlotInfo (or None) of post_process_file
collect(m, file_path) ==
    IF m.ret = <<>> THEN m
    ELSE [m EXCEPT !.refreshed = Put(@, file_path, m.ret[1]),
                   !.loaded = Append(@, m.ret[1]),
                   !.ret = <<>>]

\* first loop of refresh_batch: files with a cache entry are post-processed
RECURSIVE refresh_cached(_, _, _, _)
refresh_cached(m, batch, i, t) ==
    IF i > Len(batch) THEN m
    ELSE LET pre == futures[batch[i]] IN
         refresh_cached(
            IF pre.stat_info # NoStat /\ pre.cache_entry
            THEN collect(post_process_file(m, batch[i], pre.stat_info, t), batch[i])
            ELSE m,
            batch, i + 1, t)

\* process_args of refresh_batch: the files without a cache entry
process_args_all(batch) == SelectSeq(batch, LAMBDA q : futures[q].stat_info # NoStat)
process_args(batch) ==
    SelectSeq(batch, LAMBDA q : futures[q].stat_info # NoStat /\ ~futures[q].cache_entry)

\* starmap(process_memo, process_args) raises what any process_memo raises
starmap_raises(args) == \E i \in 1..Len(args) : ~futures[args[i]].prover.memo.parses

\* second loop of refresh_batch: the decoded files enter the cache and are
\* post-processed
RECURSIVE refresh_decoded(_, _, _, _)
refresh_decoded(m, args, i, t) ==
    IF i > Len(args) THEN m
    ELSE LET path == args[i]
             pre == futures[path]
             keys == process_memo(pre.prover.memo)
             m1 == [m EXCEPT !.cache = Cache_update(@, path, CacheEntry(pre.prover, keys, t)),
                             !.changed = TRUE]
         IN refresh_decoded(collect(post_process_file(m1, path, pre.stat_info, t), path),
                            args, i + 1, t)

\* list_to_batches(file_paths, batch_size): the number of batches, and the
\* (remaining, batch) pair of the i-th
NumBatches(file_paths) == (Len(file_paths) + batch_size - 1) \div batch_size
batch_end(file_paths, i) == Min(i * batch_size, Len(file_paths))
remaining_of(file_paths, i) == Len(file_paths) - batch_end(file_paths, i)
batch_of(file_paths, i) ==
    SubSeq(file_paths, (i - 1) * batch_size + 1, batch_end(file_paths, i))

\* get_plot_filenames(root_path), flattened as _refresh_task does: the files
\* found in each configured directory, directory after directory
in_directory(d) ==
    LET at(n) == IF <<d, n>> \in Paths /\ files[<<d, n>>] # "absent"
                 THEN << <<d, n>> >> ELSE <<>>
    IN at("x") \o at("y")
get_plot_filenames(directories) ==
    in_directory(directories[1]) \o in_directory(directories[2])
DirectoryOrders == {<<"A", "B">>, <<"B", "A">>}

PlotRefreshResult == [loaded |-> <<>>, removed |-> {}, processed |-> 0, remaining |-> 0]

\* "loaded_plot not in plot_paths" of the scan
not_found_never(path, paths) == FALSE
not_found(path, paths) == path \notin Range(paths)

\* the two unlocked loops of the scan: registry entries of vanished files
scan_failed(failed, paths) == Drop(failed, {q \in DOMAIN failed : not_found(q, paths)})
scan_no_key(no_key, paths) == {q \in no_key : ~not_found(q, paths)}

\* the locked loop of the scan over plot_filename_paths
filenames_to_remove(pfp, paths) ==
    {f \in DOMAIN pfp : not_found(<<pfp[f][1], f>>, paths)}
scan_plots_kept(pl, pfp, paths) == pl
scan_plots(pl, pfp, paths) == Drop(pl, {<<pfp[f][1], f>> : f \in filenames_to_remove(pfp, paths)})
scan_paths_kept(pfp, paths) == pfp
scan_paths(pfp, paths) ==
    [f \in DOMAIN pfp \ filenames_to_remove(pfp, paths) |->
        <<pfp[f][1], {d \in pfp[f][2] : ~not_found(<<d, f>>, paths)}>>]
scan_removed(pfp, paths) ==
    {<<pfp[f][1], f>> : f \in filenames_to_remove(pfp, paths)}
    \cup UNION {{<<d, f>> : d \in {e \in pfp[f][2] : not_found(<<e, f>>, paths)}} :
                 f \in DOMAIN pfp \ filenames_to_remove(pfp, paths)}

\* the cache cleanup at the end of a cycle: <<_data, _changed>>
remove_paths_unpublished(data, pl, t) == {q \in DOMAIN data : q \notin DOMAIN pl}
remove_paths(data, pl, t) == {q \in DOMAIN data : expired(data[q], t) /\ q \notin DOMAIN pl}
\* "elif path in self.plots: cache_entry.bump_last_use()"
still_in_use_any(pl, q) == TRUE
still_in_use(pl, q) == q \in DOMAIN pl
cleanup(data, changed, pl, t) ==
    Cache_remove([q \in DOMAIN data |->
                    IF still_in_use(pl, q) THEN [data[q] EXCEPT !.last_use = t] ELSE data[q]],
                 changed, remove_paths(data, pl, t))

\* ------------------------------------------------------------------- Init
\* the threads that call start_refreshing() and stop_refreshing()
Callers == {"a", "b"}
Idle == [at |-> "idle", thread |-> 0]
NoFile == [exists |-> FALSE, version |-> 0, data |-> <<>>]
OldFile == [exists |-> TRUE, version |-> 0, data |-> <<>>]
AllQueued(paths) == [q \in Paths |-> IF q \in Range(paths) THEN Queued ELSE NoTask]
NoFutures == [q \in Paths |-> NoTask]
NoOutcome == [q \in Paths |-> "none"]

InitFiles ==
    {f \in [Paths -> FileKinds] : /\ f[<<"A", "x">>] \in {"corrupt", "partial", "full"}
                                  /\ f[<<"B", "x">>] \in {"absent", "full", "badmemo"}
                                  /\ f[<<"A", "y">>] = "full"}
InitKeys == {<<{"Kf"}, {"Kp"}>>}

Init ==
    /\ files \in InitFiles
    /\ disk \in {NoFile, OldFile}
    /\ now = Epoch
    /\ env = 0
    /\ open_no_key_filenames \in BOOLEAN
    /\ match_str = None
    /\ plot_directories \in DirectoryOrders
    /\ farmer_public_keys = {}
    /\ pool_public_keys = {}
    /\ cache_data = Empty
    /\ cache_changed = FALSE
    /\ plots = Empty
    /\ plot_filename_paths = Empty
    /\ failed_to_open_filenames = Empty
    /\ no_key_filenames = {}
    /\ last_refresh_time = 0
    /\ refreshing_enabled = FALSE
    /\ initial = TRUE
    /\ pc = "none"
    /\ plot_paths = <<>>
    /\ total_result = PlotRefreshResult
    /\ batch_index = 0
    /\ batch_result = PlotRefreshResult
    /\ plots_refreshed = Empty
    /\ futures = NoFutures
    /\ orphans = {}
    /\ events = <<>>
    /\ outcome = NoOutcome
    /\ outcome_before = NoOutcome
    /\ stable = FALSE
    /\ rerun = FALSE
    /\ before = Empty
    /\ failed_at = [q \in Paths |-> 0]
    /\ save_failed = FALSE
    /\ stopped = FALSE
    /\ raised = FALSE
    /\ triggered = FALSE
    /\ cold = FALSE
    /\ no_key_before = {}
    /\ observed = {}
    /\ held = {}
    /\ refresh_thread = <<>>
    /\ threads = <<>>
    /\ callers = [c \in Callers |-> Idle]
    /\ calls = [c \in Callers |-> 0]
    /\ reader = <<>>
    /\ duplicates_reader = <<>>

\* ------------------------------------------------------------ environment
Acts == env < MaxEnv /\ env' = env + 1

\* "while not self.needs_refresh() and self._refreshing_enabled"
sleeps_on(enabled, due) == ~due
sleeps(enabled, due) == ~due /\ enabled

\* The refresh thread is in time.sleep(1) of its wait loop: the passing of
\* time is counted there, a cycle is short against a tick.
Sleeping == pc = "wait" /\ sleeps(refreshing_enabled, needs_refresh)
\* The refresh thread is about to list the plot files: what changed in the
\* plot directories and keys since the cycle before is what it finds now.
Due == pc = "wait" /\ refreshing_enabled /\ needs_refresh

\* The refresh thread is in a cycle: between the listing of the plot files
\* and the assignment of last_refresh_time.
InCycle == pc \notin {"none", "loop", "wait"}

\* the time the clock has advanced tick by tick: a long pause is not counted
Elapsed == IF now > Epoch + ExpiryTicks THEN now - (ExpiryTicks + 1) - Epoch ELSE now - Epoch

\* time passes
Tick ==
    /\ Sleeping
    /\ Elapsed < MaxTime
    /\ now' = now + 1
    /\ UNCHANGED <<threadVars, readerVars, observed, held, raised, files, disk, env, cfgVars, keyVars, cache_data, cache_changed, mgrVars,
                   last_refresh_time, refreshing_enabled, initial, pc, loopVars, futures,
                   orphans, events, outcome, failed_at, save_failed, stable, cycleHist>>

\* more than the retention window passes at once
LongPause ==
    /\ Acts
    /\ Sleeping
    /\ now <= Epoch + MaxTime
    /\ now' = now + ExpiryTicks + 1
    /\ UNCHANGED <<threadVars, readerVars, observed, held, raised, files, disk, cfgVars, keyVars, cache_data, cache_changed, mgrVars,
                   last_refresh_time, refreshing_enabled, initial, pc, loopVars, futures,
                   orphans, events, outcome, failed_at, save_failed, stable, cycleHist>>

\* a plot file appears, vanishes, is damaged, repaired or grows
FileChange(p, kind) ==
    /\ Acts
    /\ Due
    /\ files[p] # kind
    /\ files' = [files EXCEPT ![p] = kind]
    /\ stable' = FALSE
    /\ UNCHANGED <<threadVars, readerVars, observed, held, raised, disk, now, cfgVars, keyVars, cache_data, cache_changed, mgrVars,
                   last_refresh_time, refreshing_enabled, initial, pc, loopVars, futures,
                   orphans, events, outcome, failed_at, save_failed, cycleHist>>

\* PlotManager.set_public_keys(farmer_public_keys, pool_public_keys)
set_public_keys(farmer, pool) ==
    /\ \/ Acts /\ Due
       \/ /\ pc = "none" /\ env = 0 /\ farmer_public_keys = {} /\ pool_public_keys = {}
          /\ <<farmer, pool>> \in InitKeys
          /\ env' = env
    /\ <<farmer, pool>> # <<farmer_public_keys, pool_public_keys>>
    /\ farmer_public_keys' = farmer
    /\ pool_public_keys' = pool
    /\ stable' = FALSE
    /\ UNCHANGED <<threadVars, readerVars, observed, held, raised, files, disk, now, cfgVars, cache_data, cache_changed, mgrVars,
                   last_refresh_time, refreshing_enabled, initial, pc, loopVars, futures,
                   orphans, events, outcome, failed_at, save_failed, cycleHist>>

\* PlotManager.start_refreshing(): a thread is made, and the cache loaded,
\* when no refresh thread is alive
start_refreshing ==
    /\ ~refreshing_enabled
    /\ refreshing_enabled' = TRUE
    /\ stable' = FALSE
    /\ IF pc = "none"
       THEN /\ cache_data' = Cache_load(disk, cache_data)
            /\ pc' = "loop"
       ELSE UNCHANGED <<cache_data, pc>>
    /\ UNCHANGED <<threadVars, readerVars, observed, held, raised, files, disk, now, env, cfgVars, keyVars, cache_changed, mgrVars,
                   last_refresh_time, initial, loopVars, futures, orphans, events, outcome,
                   failed_at, save_failed, cycleHist>>

\* PlotManager.stop_refreshing(): the flag; the join ends when the thread does
stop_refreshing ==
    /\ Acts
    /\ refreshing_enabled
    /\ refreshing_enabled' = FALSE
    /\ stable' = FALSE
    /\ stopped' = (stopped \/ events = <<>> \/ events[Len(events)].kind # "done")
    /\ UNCHANGED <<threadVars, readerVars, observed, held, raised, files, disk, now, cfgVars, keyVars, cache_data, cache_changed, mgrVars,
                   last_refresh_time, initial, pc, loopVars, futures, orphans, events,
                   outcome, failed_at, save_failed, outcome_before, rerun, before, triggered, cold,
                   no_key_before>>

\* PlotManager.trigger_refresh()
trigger_refresh ==
    /\ Acts
    /\ Sleeping \/ InCycle
    /\ last_refresh_time' = 0
    /\ triggered' = TRUE
    /\ UNCHANGED <<threadVars, readerVars, observed, held, raised, files, disk, now, cfgVars, keyVars, cache_data, cache_changed,
                   mgrVars, refreshing_enabled, initial, pc, loopVars, futures, orphans, events,
                   outcome, failed_at, save_failed, stable, outcome_before, rerun, before,
                   stopped, cold, no_key_before>>

\* PlotManager.__enter__: the lock is taken when no other thread holds it;
\* the refresh thread gives it back within the step that took it
enter_always == TRUE
enter == reader = <<>> /\ "_lock" \notin held
\* Lock.acquire() and Lock.release() by the refresh thread: the locks it holds
acquire(h, lock) == h \cup {lock}
release_never(h, lock) == h
release(h, lock) == h \ {lock}
\* "with self.plot_filename_paths_lock" of post_process_file: the locks the
\* refresh thread holds inside it
post_process_locks(h) == acquire(h, "plot_filename_paths_lock")

\* PlotManager.plot_count(), called by another thread: "with self"
plot_count_enter ==
    /\ Acts
    /\ enter
    /\ reader' = <<[plots |-> plots, failed_to_open_filenames |-> failed_to_open_filenames,
                    no_key_filenames |-> no_key_filenames]>>
    /\ UNCHANGED <<threadVars, duplicates_reader, observed, held, raised, files, disk, now, cfgVars, keyVars, cache_data,
                   cache_changed, mgrVars, last_refresh_time, refreshing_enabled, initial, pc,
                   loopVars, futures, orphans, events, outcome, failed_at, save_failed, stable,
                   cycleHist>>

\* "return len(self.plots)", and the lock is given back
plot_count_return ==
    /\ reader # <<>>
    /\ reader' = <<>>
    /\ UNCHANGED <<threadVars, duplicates_reader, observed, held, raised, files, disk, now, env, cfgVars, keyVars, cache_data,
                   cache_changed, mgrVars, last_refresh_time, refreshing_enabled, initial, pc,
                   loopVars, futures, orphans, events, outcome, failed_at, save_failed, stable,
                   cycleHist>>

\* PlotManager.get_duplicates(), called by another thread: the loop over
\* plot_filename_paths.items() begins
get_duplicates_begin ==
    /\ Acts
    /\ duplicates_reader = <<>>
    /\ duplicates_reader' = <<plot_filename_paths>>
    /\ UNCHANGED <<threadVars, reader, observed, held, raised, files, disk, now, cfgVars, keyVars, cache_data,
                   cache_changed, mgrVars, last_refresh_time, refreshing_enabled, initial, pc,
                   loopVars, futures, orphans, events, outcome, failed_at, save_failed, stable,
                   cycleHist>>

\* the loop of get_duplicates() ends, the result is returned
get_duplicates_return ==
    /\ duplicates_reader # <<>>
    /\ duplicates_reader' = <<>>
    /\ UNCHANGED <<threadVars, reader, observed, held, raised, files, disk, now, env, cfgVars, keyVars, cache_data,
                   cache_changed, mgrVars, last_refresh_time, refreshing_enabled, initial, pc,
                   loopVars, futures, orphans, events, outcome, failed_at, save_failed, stable,
                   cycleHist>>

\* ------------------------------------------------------ the refresh thread
\* what is left of the cycle's locals and futures when the cycle is over
EndOfCycle ==
    /\ total_result' = PlotRefreshResult
    /\ batch_index' = 0
    /\ batch_result' = PlotRefreshResult
    /\ plots_refreshed' = Empty
    /\ futures' = NoFutures
    /\ orphans' = orphans \cup {q \in Paths : futures[q].state = "queued"}

\* PlotManager.reset(), called by the exception handler of _refresh_task,
\* which then goes round the loop
reset ==
    /\ enter
    /\ last_refresh_time' = now
    /\ plots' = Empty
    /\ plot_filename_paths' = Empty
    /\ failed_to_open_filenames' = Empty
    /\ no_key_filenames' = {}
    /\ initial' = TRUE

\* "except Exception": the cycle is over, reset()
Handler ==
    /\ reset
    /\ EndOfCycle
    /\ pc' = "loop"
    /\ raised' = TRUE
    /\ UNCHANGED <<threadVars, readerVars, observed, held, files, disk, now, cfgVars, keyVars, refreshing_enabled, plot_paths, events,
                   outcome, failed_at, save_failed, stable, cycleHist>>

\* "while self._refreshing_enabled": into the body, or the thread ends
while_refreshing_ends(enabled) == "none"
while_refreshing(enabled) == IF enabled THEN "wait" ELSE "none"

LoopTest ==
    /\ pc = "loop"
    /\ pc' = while_refreshing(refreshing_enabled)
    /\ UNCHANGED <<threadVars, readerVars, observed, held, raised, files, disk, now, env, cfgVars, keyVars, cache_data, cache_changed, mgrVars,
                   last_refresh_time, refreshing_enabled, initial, loopVars, futures,
                   orphans, events, outcome, failed_at, save_failed, stable, cycleHist>>

\* the wait loop left because the flag went down: return
WaitStopped ==
    /\ pc = "wait"
    /\ ~sleeps(refreshing_enabled, needs_refresh)
    /\ ~refreshing_enabled
    /\ pc' = "none"
    /\ UNCHANGED <<threadVars, readerVars, observed, held, raised, files, disk, now, env, cfgVars, keyVars, cache_data, cache_changed, mgrVars,
                   last_refresh_time, refreshing_enabled, initial, loopVars, futures,
                   orphans, events, outcome, failed_at, save_failed, stable, cycleHist>>

\* the wait loop left because a refresh is due: the plot files are listed
Enumerate ==
    /\ pc = "wait"
    /\ refreshing_enabled
    /\ needs_refresh
    /\ plot_paths' = get_plot_filenames(plot_directories)
    /\ total_result' = PlotRefreshResult
    /\ rerun' = (/\ stable
                /\ events # <<>>
                /\ events[Len(events)].kind = "done"
                /\ Range(plot_paths) = Range(get_plot_filenames(plot_directories)))
    /\ stable' = TRUE
    /\ outcome_before' = outcome
    /\ outcome' = NoOutcome
    /\ before' = plots
    /\ cold' = (/\ plots = Empty
                /\ plot_filename_paths = Empty
                /\ failed_to_open_filenames = Empty
                /\ no_key_filenames = {}
                /\ cache_data = Empty)
    /\ no_key_before' = no_key_filenames
    /\ stopped' = FALSE
    /\ raised' = FALSE
    /\ events' = <<>>
    /\ pc' = "started"
    /\ UNCHANGED <<threadVars, readerVars, observed, held, files, disk, now, env, cfgVars, keyVars, cache_data, cache_changed, mgrVars,
                   last_refresh_time, refreshing_enabled, initial, batch_index, batch_result,
                   plots_refreshed, futures, orphans, failed_at, save_failed, triggered>>

\* what the observer gets: the event and the PlotRefreshResult
Event(kind, result) ==
    [kind |-> kind, remaining |-> result.remaining, loaded |-> result.loaded,
     removed |-> result.removed, processed |-> result.processed]

\* what the observer holds after an event: the paths of the loaded records
\* it got, without the paths it got as removed
Delivered(obs, ev) ==
    (obs \cup {Path(ev.loaded[i].prover.filename) : i \in 1..Len(ev.loaded)}) \ ev.removed

\* _refresh_callback(started, PlotRefreshResult(remaining=total_size))
Started ==
    /\ pc = "started"
    /\ events' = <<Event("started", [PlotRefreshResult EXCEPT !.remaining = Len(plot_paths)])>>
    /\ triggered' = FALSE
    /\ pc' = "scan"
    /\ UNCHANGED <<threadVars, readerVars, observed, held, raised, files, disk, now, env, cfgVars, keyVars, cache_data, cache_changed,
                   mgrVars, last_refresh_time, refreshing_enabled, initial, loopVars, futures,
                   orphans, outcome, failed_at, save_failed, stable, outcome_before, rerun,
                   before, stopped, cold, no_key_before>>

\* an observer callback raises
CallbackRaises ==
    /\ Acts
    /\ \/ pc = "started"
       \/ pc = "batch_done" /\ refreshing_enabled
       \/ pc = "end" /\ refreshing_enabled
    /\ UNCHANGED <<cache_data, cache_changed>>
    /\ Handler

\* the scan, first part: failure and no-key registries
ScanRegistries ==
    /\ pc = "scan"
    /\ failed_to_open_filenames' = scan_failed(failed_to_open_filenames, plot_paths)
    /\ no_key_filenames' = scan_no_key(no_key_filenames, plot_paths)
    /\ pc' = "scan_locked"
    /\ UNCHANGED <<threadVars, readerVars, observed, held, raised, files, disk, now, env, cfgVars, keyVars, cache_data, cache_changed, plots,
                   plot_filename_paths, last_refresh_time, refreshing_enabled, initial,
                   loopVars, futures, orphans, events, outcome, failed_at, save_failed, stable, cycleHist>>

\* the scan, second part: "with self", __enter__
ScanEnter ==
    /\ pc = "scan_locked"
    /\ enter
    /\ held' = acquire(held, "_lock")
    /\ UNCHANGED <<threadVars, readerVars, observed, raised, files, disk, now, env, cfgVars, keyVars, cache_data,
                   cache_changed, mgrVars, last_refresh_time, refreshing_enabled, initial, pc,
                   loopVars, futures, orphans, events, outcome, failed_at, save_failed, stable,
                   cycleHist>>

\* the locked loop of the scan, and __exit__
ScanPlots ==
    /\ pc = "scan_locked"
    /\ "_lock" \in held
    /\ held' = release(held, "_lock")
    /\ plots' = scan_plots(plots, plot_filename_paths, plot_paths)
    /\ plot_filename_paths' = scan_paths(plot_filename_paths, plot_paths)
    /\ total_result' = [total_result EXCEPT
                          !.removed = @ \cup scan_removed(plot_filename_paths, plot_paths)]
    /\ pc' = "submit"
    /\ UNCHANGED <<threadVars, readerVars, observed, raised, files, disk, now, env, cfgVars, keyVars, cache_data, cache_changed,
                   failed_to_open_filenames, no_key_filenames, last_refresh_time,
                   refreshing_enabled, initial, plot_paths, batch_index, batch_result,
                   plots_refreshed, futures, orphans, events, outcome, failed_at, save_failed, stable, cycleHist>>

\* pre_process_files(plot_paths): every file of every batch is submitted
Submit ==
    /\ pc = "submit"
    /\ futures' = AllQueued(plot_paths)
    /\ batch_index' = 1
    /\ pc' = IF NumBatches(plot_paths) = 0 THEN "end" ELSE "batch"
    /\ UNCHANGED <<threadVars, readerVars, observed, held, raised, files, disk, now, env, cfgVars, keyVars, cache_data, cache_changed, mgrVars,
                   last_refresh_time, refreshing_enabled, initial, plot_paths, total_result,
                   batch_result, plots_refreshed, orphans, events, outcome, failed_at, save_failed, stable,
                   cycleHist>>

\* failed_at after pre_process_file(p) did what: the time of a failed open
\* is kept until the file is opened
opened_at(p, what) ==
    IF what = "failed" THEN [failed_at EXCEPT ![p] = now]
    ELSE IF what \in {"small", "opened"} THEN [failed_at EXCEPT ![p] = 0]
    ELSE failed_at

\* the pool takes the tasks in the order of their submission
first_queued(p) ==
    \E i \in 1..Len(plot_paths) :
        /\ plot_paths[i] = p
        /\ futures[p].state = "queued"
        /\ \A j \in 1..(i - 1) : futures[plot_paths[j]].state # "queued"

\* a pool thread runs pre_process_file(p) for the cycle in progress
RunTask(p) ==
    /\ first_queued(p)
    /\ LET r == pre_process_file(p) IN
        /\ futures' = [futures EXCEPT ![p] = r.result]
        /\ failed_to_open_filenames' = r.failed
        /\ outcome' = [outcome EXCEPT ![p] = r.what]
        /\ failed_at' = opened_at(p, r.what)
    /\ UNCHANGED <<threadVars, readerVars, observed, held, raised, files, disk, now, env, cfgVars, keyVars, cache_data, cache_changed, plots,
                   plot_filename_paths, no_key_filenames, last_refresh_time,
                   refreshing_enabled, initial, pc, loopVars, orphans, events, stable, cycleHist,
                   save_failed>>

\* a pool thread runs a pre_process_file(p) left over by an earlier cycle
RunOrphan(p) ==
    /\ p \in orphans
    /\ orphans' = orphans \ {p}
    /\ LET r == pre_process_file(p) IN
        /\ failed_to_open_filenames' = r.failed
        /\ failed_at' = opened_at(p, r.what)
    /\ UNCHANGED <<threadVars, readerVars, observed, held, raised, files, disk, now, env, cfgVars, keyVars, cache_data, cache_changed, plots,
                   plot_filename_paths, no_key_filenames, last_refresh_time,
                   refreshing_enabled, initial, pc, loopVars, futures, events, outcome,
                   save_failed, stable, cycleHist>>

\* the manager state that refresh_batch and post_process_file work on
BatchState ==
    [no_key |-> no_key_filenames, pfp |-> plot_filename_paths,
     failed |-> failed_to_open_filenames, cache |-> cache_data, changed |-> cache_changed,
     refreshed |-> Empty, loaded |-> <<>>, ret |-> <<>>]

BatchCollected ==
    \A i \in 1..Len(batch_of(plot_paths, batch_index)) :
        futures[batch_of(plot_paths, batch_index)[i]].state = "done"

\* refresh_batch([f.result() for f in futures]) up to the publication
RefreshBatch ==
    /\ pc = "batch"
    /\ BatchCollected
    /\ LET batch == batch_of(plot_paths, batch_index)
           m1 == refresh_cached(BatchState, batch, 1, now)
           args == process_args(batch)
           m2 == refresh_decoded(m1, args, 1, now)
       IN /\ ~starmap_raises(args)
          /\ no_key_filenames' = m2.no_key
          /\ plot_filename_paths' = m2.pfp
          /\ failed_to_open_filenames' = m2.failed
          /\ cache_data' = m2.cache
          /\ cache_changed' = m2.changed
          /\ plots_refreshed' = m2.refreshed
          /\ batch_result' = [PlotRefreshResult EXCEPT !.loaded = m2.loaded,
                                                       !.processed = Len(batch)]
    /\ pc' = "publish"
    /\ UNCHANGED <<threadVars, readerVars, observed, held, raised, files, disk, now, env, cfgVars, keyVars, plots, last_refresh_time,
                   refreshing_enabled, initial, plot_paths, total_result, batch_index, futures,
                   orphans, events, outcome, failed_at, save_failed, stable, cycleHist>>

\* process_memo raises in the pool, starmap raises in refresh_batch: the
\* files with a cache entry were post-processed before
DecodeRaises ==
    /\ pc = "batch"
    /\ BatchCollected
    /\ LET batch == batch_of(plot_paths, batch_index)
           m1 == refresh_cached(BatchState, batch, 1, now)
       IN /\ starmap_raises(process_args(batch))
          /\ cache_data' = m1.cache
          /\ cache_changed' = m1.changed
    /\ env' = env
    /\ Handler

\* "with self: self.plots.update(plots_refreshed)"
publish_only(pl, refreshed) == refreshed
publish(pl, refreshed) ==
    [q \in DOMAIN pl \cup DOMAIN refreshed |-> IF q \in DOMAIN refreshed THEN refreshed[q] ELSE pl[q]]

PublishEnter ==
    /\ pc = "publish"
    /\ enter
    /\ held' = acquire(held, "_lock")
    /\ UNCHANGED <<threadVars, readerVars, observed, raised, files, disk, now, env, cfgVars, keyVars, cache_data,
                   cache_changed, mgrVars, last_refresh_time, refreshing_enabled, initial, pc,
                   loopVars, futures, orphans, events, outcome, failed_at, save_failed, stable,
                   cycleHist>>

\* "self.plots.update(plots_refreshed)", and __exit__
Publish ==
    /\ pc = "publish"
    /\ "_lock" \in held
    /\ held' = release(held, "_lock")
    /\ plots' = publish(plots, plots_refreshed)
    /\ pc' = "batch_done"
    /\ UNCHANGED <<threadVars, readerVars, observed, raised, files, disk, now, env, cfgVars, keyVars, cache_data, cache_changed,
                   plot_filename_paths, failed_to_open_filenames, no_key_filenames,
                   last_refresh_time, refreshing_enabled, initial, loopVars, futures,
                   orphans, events, outcome, failed_at, save_failed, stable, cycleHist>>

\* "batch_result.remaining = remaining"
set_remaining_kept(result, remaining) == result
set_remaining(result, remaining) == [result EXCEPT !.remaining = remaining]

\* "if not self._refreshing_enabled: ... break", after refresh_batch
aborted_never == FALSE
aborted == ~refreshing_enabled

\* after refresh_batch: abort, or report the batch and go on
BatchAborted ==
    /\ pc = "batch_done"
    /\ aborted
    /\ pc' = "end"
    /\ UNCHANGED <<threadVars, readerVars, observed, held, raised, files, disk, now, env, cfgVars, keyVars, cache_data, cache_changed, mgrVars,
                   last_refresh_time, refreshing_enabled, initial, loopVars, futures,
                   orphans, events, outcome, failed_at, save_failed, stable, cycleHist>>

BatchProcessed ==
    /\ pc = "batch_done"
    /\ ~aborted
    /\ LET remaining == remaining_of(plot_paths, batch_index)
           result == set_remaining(batch_result, remaining)
       IN /\ batch_result' = result
          /\ total_result' = [total_result EXCEPT !.loaded = @ \o result.loaded,
                                                  !.processed = @ + result.processed]
          /\ events' = Append(events, Event("batch_processed", result))
          /\ observed' = Delivered(observed, Event("batch_processed", result))
          /\ IF remaining = 0
             THEN pc' = "end" /\ batch_index' = batch_index
             ELSE pc' = "batch" /\ batch_index' = batch_index + 1
    /\ UNCHANGED <<threadVars, readerVars, held, raised, files, disk, now, env, cfgVars, keyVars, cache_data, cache_changed, mgrVars,
                   last_refresh_time, refreshing_enabled, initial, plot_paths, plots_refreshed,
                   futures, orphans, outcome, failed_at, save_failed, stable, cycleHist>>

\* after the batches: done is reported unless the flag is down
End ==
    /\ pc = "end"
    /\ events' = IF refreshing_enabled THEN Append(events, Event("done", total_result))
                 ELSE events
    /\ observed' = IF refreshing_enabled THEN Delivered(observed, Event("done", total_result))
                   ELSE observed
    /\ initial' = FALSE
    /\ pc' = "cleanup"
    /\ UNCHANGED <<threadVars, readerVars, held, raised, files, disk, now, env, cfgVars, keyVars, cache_data, cache_changed, mgrVars,
                   last_refresh_time, refreshing_enabled, loopVars, futures, orphans, outcome,
                   failed_at, save_failed, stable, cycleHist>>

\* "Cleanup unused cache"
Cleanup ==
    /\ pc = "cleanup"
    /\ LET c == cleanup(cache_data, cache_changed, plots, now) IN
        /\ cache_data' = c[1]
        /\ cache_changed' = c[2]
        /\ pc' = IF c[2] THEN "save" ELSE "finish"
    /\ UNCHANGED <<threadVars, readerVars, observed, held, raised, files, disk, now, env, cfgVars, keyVars, mgrVars, last_refresh_time,
                   refreshing_enabled, initial, loopVars, futures, orphans, events, outcome,
                   failed_at, save_failed, stable, cycleHist>>

\* Cache.save(): written, and the cache is clean
Save ==
    /\ pc = "save"
    /\ disk' = Cache_save(cache_data)
    /\ cache_changed' = FALSE
    /\ pc' = "finish"
    /\ UNCHANGED <<threadVars, readerVars, observed, held, raised, files, now, env, cfgVars, keyVars, cache_data, mgrVars, last_refresh_time,
                   refreshing_enabled, initial, loopVars, futures, orphans, events, outcome,
                   failed_at, save_failed, stable, cycleHist>>

\* Cache.save(): write_bytes raises, the exception is logged
SaveFails ==
    /\ pc = "save"
    /\ Acts
    /\ save_failed' = TRUE
    /\ pc' = "finish"
    /\ UNCHANGED <<threadVars, readerVars, observed, held, raised, files, disk, now, cfgVars, keyVars, cache_data, cache_changed, mgrVars,
                   last_refresh_time, refreshing_enabled, initial, loopVars, futures, orphans,
                   events, outcome, failed_at, stable, cycleHist>>

\* "self.last_refresh_time = time.time()", and round the loop
Finish ==
    /\ pc = "finish"
    /\ last_refresh_time' = now
    /\ EndOfCycle
    /\ pc' = "loop"
    /\ UNCHANGED <<threadVars, readerVars, observed, held, raised, files, disk, now, env, cfgVars, keyVars, cache_data, cache_changed, mgrVars,
                   refreshing_enabled, initial, plot_paths, events, outcome, failed_at, save_failed, stable,
                   cycleHist>>

Next ==
    \/ Tick
    \/ LongPause
    \/ \E p \in Paths, kind \in FileKinds : FileChange(p, kind)
    \/ \E farmer \in SUBSET FarmerKeys, pool \in SUBSET PoolKeys : set_public_keys(farmer, pool)
    \/ start_refreshing
    \/ stop_refreshing
    \/ trigger_refresh
    \/ plot_count_enter
    \/ plot_count_return
    \/ get_duplicates_begin
    \/ get_duplicates_return
    \/ LoopTest
    \/ WaitStopped
    \/ Enumerate
    \/ Started
    \/ CallbackRaises
    \/ ScanRegistries
    \/ ScanEnter
    \/ ScanPlots
    \/ Submit
    \/ \E p \in Paths : RunTask(p)
    \/ \E p \in Paths : RunOrphan(p)
    \/ RefreshBatch
    \/ DecodeRaises
    \/ PublishEnter
    \/ Publish
    \/ BatchAborted
    \/ BatchProcessed
    \/ End
    \/ Cleanup
    \/ Save
    \/ SaveFails
    \/ Finish

Spec == Init /\ [][Next]_vars

\* process_args of the batch in progress
DecodeArgs == process_args(batch_of(plot_paths, batch_index))

\* refresh_batch can be called: the futures of the batch have their results
\* (and, where process_memo will raise, the handler can take the lock)
BatchReady == pc = "batch" /\ BatchCollected /\ (starmap_raises(DecodeArgs) => enter)

\* The refresh thread, once started, runs on; the pool runs the tasks
\* submitted to it; a thread in plot_count() or get_duplicates() returns;
\* time passes while the refresh thread sleeps. The condition on BatchReady
\* is the weak fairness of RefreshBatch \/ DecodeRaises, written with their
\* enabling condition: either step leaves BatchReady.
FairSpec ==
    /\ Spec
    /\ WF_vars(LoopTest)
    /\ WF_vars(WaitStopped)
    /\ WF_vars(Enumerate)
    /\ WF_vars(Started)
    /\ WF_vars(ScanRegistries)
    /\ WF_vars(ScanEnter)
    /\ WF_vars(ScanPlots)
    /\ WF_vars(Submit)
    /\ WF_vars(\E p \in Paths : RunTask(p))
    /\ []<>(~BatchReady)
    /\ WF_vars(PublishEnter)
    /\ WF_vars(Publish)
    /\ WF_vars(BatchAborted)
    /\ WF_vars(BatchProcessed)
    /\ WF_vars(End)
    /\ WF_vars(Cleanup)
    /\ WF_vars(Save)
    /\ WF_vars(Finish)
    /\ WF_vars(plot_count_return)
    /\ WF_vars(get_duplicates_return)
    /\ WF_vars(Tick)

\* ------------------------------------- start_refreshing(), stop_refreshing()
\* The two methods statement by statement, called by the threads of Callers;
\* the manager takes no lock in either. The refresh loop is reduced to its
\* tests of the flag.

\* Thread.is_alive(): started and not yet returned
is_alive(t) == threads[t] = "running"

\* the test of start_refreshing()
no_refresh_thread == refresh_thread = <<>> \/ ~is_alive(refresh_thread[1])

\* the test of stop_refreshing()
has_refresh_thread == refresh_thread # <<>> /\ is_alive(refresh_thread[1])

\* what the two methods and the flag tests leave alone
restVars ==
    <<files, disk, now, env, cfgVars, keyVars, cache_changed, mgrVars,
      last_refresh_time, initial, pc, loopVars, futures, orphans, events, outcome,
      stable, failed_at, save_failed, raised, cycleHist, readerVars, observed, held>>

At(c, at) == callers[c].at = at

Goto(c, to) == callers' = [callers EXCEPT ![c] = [at |-> to, thread |-> 0]]

\* self._refreshing_enabled = True
start_set_flag(c) ==
    /\ At(c, "idle")
    /\ calls[c] < MaxCalls
    /\ refreshing_enabled' = TRUE
    /\ Goto(c, "start_test")
    /\ calls' = [calls EXCEPT ![c] = @ + 1]
    /\ UNCHANGED <<restVars, refresh_thread, threads, cache_data>>

\* if self._refresh_thread is None or not self._refresh_thread.is_alive():
start_test(c) ==
    /\ At(c, "start_test")
    /\ Goto(c, IF no_refresh_thread THEN "start_load" ELSE "idle")
    /\ UNCHANGED <<restVars, refresh_thread, threads, calls, refreshing_enabled, cache_data>>

\* self.cache.load()
start_load(c) ==
    /\ At(c, "start_load")
    /\ cache_data' = Cache_load(disk, cache_data)
    /\ Goto(c, "start_thread")
    /\ UNCHANGED <<restVars, refresh_thread, threads, calls, refreshing_enabled>>

\* self._refresh_thread = threading.Thread(target=self._refresh_task)
start_thread(c) ==
    /\ At(c, "start_thread")
    /\ threads' = Append(threads, "created")
    /\ refresh_thread' = <<Len(threads) + 1>>
    /\ Goto(c, "start_start")
    /\ UNCHANGED <<restVars, calls, refreshing_enabled, cache_data>>

\* self._refresh_thread.start(): starts the thread the attribute names now;
\* Thread.start() of a thread that was started raises RuntimeError
start_start(c) ==
    /\ At(c, "start_start")
    /\ IF refresh_thread # <<>> /\ threads[refresh_thread[1]] = "created"
       THEN threads' = [threads EXCEPT ![refresh_thread[1]] = "running"]
       ELSE threads' = threads
    /\ Goto(c, "idle")
    /\ UNCHANGED <<restVars, refresh_thread, calls, refreshing_enabled, cache_data>>

\* self._refreshing_enabled = False
stop_clear_flag(c) ==
    /\ At(c, "idle")
    /\ calls[c] < MaxCalls
    /\ refreshing_enabled' = FALSE
    /\ Goto(c, "stop_test")
    /\ calls' = [calls EXCEPT ![c] = @ + 1]
    /\ UNCHANGED <<restVars, refresh_thread, threads, cache_data>>

\* if self._refresh_thread is not None and self._refresh_thread.is_alive():
\* the join that follows is of the thread the attribute names now
stop_test(c) ==
    /\ At(c, "stop_test")
    /\ IF has_refresh_thread
       THEN callers' = [callers EXCEPT ![c] = [at |-> "stop_join", thread |-> refresh_thread[1]]]
       ELSE Goto(c, "idle")
    /\ UNCHANGED <<restVars, refresh_thread, threads, calls, refreshing_enabled, cache_data>>

\* self._refresh_thread.join() returns
stop_join(c) ==
    /\ At(c, "stop_join")
    /\ ~is_alive(callers[c].thread)
    /\ Goto(c, "stop_forget")
    /\ UNCHANGED <<restVars, refresh_thread, threads, calls, refreshing_enabled, cache_data>>

\* self._refresh_thread = None
stop_forget(c) ==
    /\ At(c, "stop_forget")
    /\ refresh_thread' = <<>>
    /\ Goto(c, "idle")
    /\ UNCHANGED <<restVars, threads, calls, refreshing_enabled, cache_data>>

\* _refresh_task returns at a test of the flag that finds it False
refresh_task_returns(t) ==
    /\ is_alive(t)
    /\ ~refreshing_enabled
    /\ threads' = [threads EXCEPT ![t] = "returned"]
    /\ UNCHANGED <<restVars, refresh_thread, callers, calls, refreshing_enabled, cache_data>>

ThreadNext ==
    \/ \E c \in Callers : start_set_flag(c)
    \/ \E c \in Callers : start_test(c)
    \/ \E c \in Callers : start_load(c)
    \/ \E c \in Callers : start_thread(c)
    \/ \E c \in Callers : start_start(c)
    \/ \E c \in Callers : stop_clear_flag(c)
    \/ \E c \in Callers : stop_test(c)
    \/ \E c \in Callers : stop_join(c)
    \/ \E c \in Callers : stop_forget(c)
    \/ \E t \in DOMAIN threads : refresh_task_returns(t)

ThreadSpec == Init /\ [][ThreadNext]_vars


\* ============================================================== properties
Ax == <<"A", "x">>
Bx == <<"B", "x">>
\* the cycle reported done: it completed
Completed == events # <<>> /\ events[Len(events)].kind = "done"
DoneResult == events[Len(events)]
\* the keys of plot n are the node's: both key tests of post_process_file pass
OwnKeys(n) ==
    LET keys == process_memo(get_memo(n))
    IN ~farmer_key_missing(keys, farmer_public_keys) /\ ~pool_key_missing(keys, pool_public_keys)
\* outcomes of pre_process_file in which the file was opened, or tried to be
Attempts == {"failed", "small", "opened"}

\* C1: in every reachable state the plot map holds at most one path for a
\* plot filename: two paths with the same filename are never both published.
C1_OnePathPerFilename == \A p, q \in DOMAIN plots : name(p) = name(q) => p = q
\* both copies are on disk, one is published and the other a registered duplicate
C1_Witness ==
    /\ Opens(files[Ax]) /\ Opens(files[Bx])
    /\ \E p \in DOMAIN plots : name(p) = "x"
    /\ "x" \in DOMAIN plot_filename_paths
    /\ plot_filename_paths["x"][2] # {}
    /\ env = MaxEnv

\* C2 as written: two openable files A/x and B/x, keys owned by the node;
\* after one completed cycle exactly one of them is in the plot map and the
\* other is a duplicate registered under x, returned by get_duplicates().
C2_Given == Completed /\ stable /\ Opens(files[Ax]) /\ Opens(files[Bx]) /\ OwnKeys("x")
C2_ExactlyOne ==
    /\ ~((Ax \in DOMAIN plots) <=> (Bx \in DOMAIN plots))
    /\ "x" \in DOMAIN plot_filename_paths
    /\ \A p \in {Ax, Bx} \ DOMAIN plots :
          /\ parent(p) \in plot_filename_paths["x"][2]
          /\ p \in get_duplicates(plot_filename_paths)
C3_Unchanged ==
    /\ DoneResult.loaded = <<>>
    /\ DoneResult.removed = {}
    /\ plots = before
C3_AsWritten == rerun /\ stable /\ Completed => C3_Unchanged
\* C3, amended: the same, provided the first cycle skipped no candidate file
\* for the retry backoff.
C3_Idempotence ==
    /\ rerun /\ stable /\ Completed
    /\ \A p \in Paths : outcome_before[p] # "backoff"
    => C3_Unchanged
C3_Witness ==
    /\ rerun /\ stable /\ Completed
    /\ \A p \in Paths : outcome_before[p] # "backoff"
    /\ \E p \in Paths : outcome_before[p] = "opened"
    /\ plots # Empty

\* C4: a path in the plot map whose file is not in the candidate list of the
\* next cycle is deleted from the plot map by that cycle, and is in the
\* removed list of that cycle's result.
Scanned == pc \in {"submit", "batch", "publish", "batch_done", "end"}
C4_Removal ==
    \A p \in DOMAIN before :
        p \notin Range(plot_paths) =>
            /\ Scanned => p \notin DOMAIN plots /\ p \in total_result.removed
            /\ Completed => p \notin DOMAIN plots /\ p \in DoneResult.removed
C4_Witness ==
    /\ Completed
    /\ \E p \in DOMAIN before : p \notin Range(plot_paths) /\ p \in DoneResult.removed

\* C5 as written: after post-processing an openable plot whose farmer key is
\* not configured (and whose filename no other directory holds), the path is
\* in the no-key set; it is published exactly if the override flag is set.
ThisBatch == Range(batch_of(plot_paths, batch_index))
OnlyCopy(p) == \A q \in Paths : name(q) = name(p) /\ q # p => files[q] = "absent"
C5_AsWritten ==
    pc = "batch_done" /\ stable =>
        \A p \in ThisBatch :
            /\ outcome[p] = "opened"
            /\ OnlyCopy(p)
            /\ farmer_key_missing(cache_data[p].keys, farmer_public_keys)
            => /\ p \in no_key_filenames
               /\ p \in DOMAIN plots <=> open_no_key_filenames

\* C6 as written: after an open of a file failed at time t, no pre-processing
\* opens the file before t + retry_invalid_seconds, and the first one at or
\* after that time does, whatever cycles ended in an exception in between.
PreProcess(p) == RunTask(p) \/ RunOrphan(p)
C6_AsWritten ==
    [][\A p \in Paths :
         PreProcess(p) /\ failed_at[p] # 0 =>
            IF now < failed_at[p] + RetryTicks
            THEN pre_process_file(p).what \notin Attempts
            ELSE pre_process_file(p).what \in Attempts]_vars
\* C6, amended: as long as the failure stays in the failure registry (no
\* reset, the file still a candidate), the registry holds the failure time t
\* cut to whole seconds, no pre-processing opens the file before
\* int(t) + retry_invalid_seconds, and one at or after that time, with
\* refreshing enabled and the file not filtered out, does.
C6_RetryBackoff ==
    [][\A p \in Paths :
         PreProcess(p) /\ failed_at[p] # 0 /\ p \in DOMAIN failed_to_open_filenames =>
            /\ failed_to_open_filenames[p] = int(failed_at[p])
            /\ IF now < int(failed_at[p]) + RetryTicks
               THEN pre_process_file(p).what \notin Attempts
               ELSE refreshing_enabled /\ ~filtered_out(match_str, p)
                    => pre_process_file(p).what \in Attempts]_vars
\* a failed open, a cycle that skipped the file, and the cycle that retried
C6_Witness ==
    \E p \in Paths :
        /\ outcome_before[p] = "backoff"
        /\ outcome[p] \in Attempts
        /\ now >= Epoch + RetryTicks

\* C7: a file that opens, has k >= 30 and less than 98% of the expected size
\* is not published by the cycle, and the cycle adds no failure for it.
C7_Skipped ==
    \A p \in Paths :
        /\ stable
        /\ files[p] = "partial" /\ get_size(name(p)) >= 30
        /\ outcome[p] \in Attempts
        => /\ outcome[p] = "small"
           /\ p \notin DOMAIN plots /\ p \notin DOMAIN plots_refreshed
           /\ p \in DOMAIN failed_to_open_filenames
                => now - failed_to_open_filenames[p] >= RetryTicks
\* the file was undersized in the cycle before, has its size now, and its
\* batch has been processed
C7_Grown(p) ==
    /\ pc = "batch_done" /\ stable
    /\ p \in ThisBatch
    /\ outcome_before[p] = "small"
    /\ files[p] = "full"
KeysPermit(p) == open_no_key_filenames \/ OwnKeys(name(p))
\* C7 as written: ... and once it has its size, the next cycle opens it and,
\* keys permitting, publishes it.
C7_AsWritten ==
    /\ C7_Skipped
    /\ \A p \in Paths :
          C7_Grown(p) => /\ outcome[p] = "opened"
                         /\ KeysPermit(p) => p \in DOMAIN plots
\* C7, amended: ... the next cycle, unless the retry backoff skips the file,
\* opens it and, keys permitting, publishes it, or registers it as a
\* duplicate when another directory already holds its filename.
C7_SizeGuard ==
    /\ C7_Skipped
    /\ \A p \in Paths :
          C7_Grown(p) /\ outcome[p] # "backoff" =>
             /\ outcome[p] = "opened"
             /\ KeysPermit(p) =>
                  \/ p \in DOMAIN plots
                  \/ /\ name(p) \in DOMAIN plot_filename_paths
                     /\ plot_filename_paths[name(p)][1] # parent(p)
                     /\ parent(p) \in plot_filename_paths[name(p)][2]
C7_Witness == C7_Grown(Ax) /\ outcome[Ax] = "opened" /\ Ax \in DOMAIN plots

\* C8 as written: after Cache.load() read a snapshot of another version
\* the in-memory cache has no entries, whatever it held before, also when
\* start_refreshing() loads again after a stop.
C8_AsWritten ==
    [][start_refreshing /\ pc = "none" /\ disk.exists /\ disk.version # CURRENT_VERSION
         => cache_data' = Empty]_vars

C10_DirtyUntilSaved ==
    [][/\ SaveFails => cache_changed' /\ pc' = "finish"
       /\ Cleanup /\ cache_changed' => pc' = "save"
       /\ cache_changed /\ ~cache_changed' => pc = "save" /\ disk' = Cache_save(cache_data)
      ]_vars
\* a save failed, and the save of a later cycle succeeded
C10_Witness ==
    /\ save_failed
    /\ pc = "finish"
    /\ ~cache_changed
    /\ disk = Cache_save(cache_data)

\* C11 as written: in a cycle the observer gets exactly one started event,
\* with remaining = the number of candidate paths, before any
\* batch_processed event, every batch_processed event before done, and at
\* most one done; done only if every batch of the cycle was processed, and
\* not in a cycle during which the stop flag was set.
Reported == pc \in {"scan", "scan_locked", "submit", "batch", "publish", "batch_done", "end",
                    "cleanup", "save", "finish"}
BatchEvents == {i \in 1..Len(events) : events[i].kind = "batch_processed"}
C11_Order ==
    /\ Reported => events # <<>>
    /\ events # <<>> =>
         /\ events[1].kind = "started"
         /\ events[1].remaining = Len(plot_paths)
         /\ \A i \in 2..Len(events) :
               /\ events[i].kind # "started"
               /\ events[i].kind = "done" => i = Len(events)
C11_NotWhenStopped == Completed => ~stopped
\* Of the claim, the order of the events and "done only if every batch of
\* the cycle was processed"; the clause C11_NotWhenStopped asks for more.
C11_AsWritten ==
    /\ C11_Order
    /\ Completed => Cardinality(BatchEvents) = NumBatches(plot_paths)

\* C12: in a cycle the remaining counts of successive batch_processed events
\* strictly decrease, each is smaller than the remaining count of the
\* started event, and when every batch of the cycle was processed the last
\* batch_processed event has remaining = 0.
AllProcessed == BatchEvents # {} /\ Cardinality(BatchEvents) = NumBatches(plot_paths)
C12_RemainingDecreases ==
    /\ \A i \in BatchEvents :
          /\ events[i].remaining < events[1].remaining
          /\ \A j \in BatchEvents : i < j => events[j].remaining < events[i].remaining
    /\ AllProcessed =>
          \A i \in BatchEvents : (\A j \in BatchEvents : j <= i) => events[i].remaining = 0
C12_Witness ==
    /\ Completed
    /\ AllProcessed
    /\ Cardinality(BatchEvents) = NumBatches(plot_paths)
    /\ NumBatches(plot_paths) > 1

\* C13: an exception raised in a cycle is caught in the loop: when the
\* handler has run the plot map and the three registries are empty, the
\* initial-refresh flag is true, the manager lock is free and the thread is
\* at the loop test; until the next cycle lists the files the plot map, the
\* duplicate registry and the no-key registry stay empty and only a
\* pre-processing task left in the pool by the cycle that raised adds to the
\* failure registry; and while refreshing stays enabled another cycle begins
\* (within the time the model covers).
Raise == CallbackRaises \/ DecodeRaises
Horizon == now + IntervalTicks >= Epoch + MaxTime
C13_Caught ==
    /\ [][Raise => /\ plots' = Empty
                   /\ plot_filename_paths' = Empty
                   /\ failed_to_open_filenames' = Empty
                   /\ no_key_filenames' = {}
                   /\ initial'
                   /\ reader' = <<>>
                   /\ pc' = "loop"]_vars
    /\ [][raised /\ raised' =>
             /\ plots' = Empty
             /\ plot_filename_paths' = Empty
             /\ no_key_filenames' = {}
             /\ initial'
             /\ failed_to_open_filenames' # failed_to_open_filenames =>
                    \E p \in Paths : RunOrphan(p)]_vars
    /\ (raised /\ refreshing_enabled) ~> (~raised \/ ~refreshing_enabled \/ Horizon)
C13_Witness ==
    /\ raised
    /\ pc = "wait"
    /\ refreshing_enabled
    /\ ~Horizon
    /\ before # Empty
\* C13 as written: the failure registry is empty after an exception, until
\* the next cycle.
C13_AsWritten == raised => failed_to_open_filenames = Empty

\* C14 as written: when the memo of a file of the batch cannot be decoded,
\* refresh_batch goes on to the publication of the batch, and the file is in
\* the failure registry with the time of the batch, in whole seconds.
DecodeFails == pc = "batch" /\ BatchCollected /\ starmap_raises(DecodeArgs)
C14_AsWritten ==
    [][DecodeFails /\ pc' # pc =>
          /\ pc' = "publish"
          /\ \A q \in Range(DecodeArgs) :
                ~futures[q].prover.memo.parses =>
                    /\ q \in DOMAIN failed_to_open_filenames'
                    /\ failed_to_open_filenames'[q] = int(now)]_vars

\* C15: the plot map changes only in steps that hold the manager lock: a
\* thread that holds the lock finds the plot map as it was when it got the
\* lock, and of the records accepted in the batch in progress it finds none
\* or all in the plot map.
NonePublished == \A q \in DOMAIN plots_refreshed : q \notin DOMAIN plots
AllPublished ==
    \A q \in DOMAIN plots_refreshed : q \in DOMAIN plots /\ plots[q] = plots_refreshed[q]
C15_PlotsUnderLock ==
    reader # <<>> =>
        /\ plots = reader[1].plots
        /\ NonePublished \/ AllPublished
C15_Witness ==
    /\ reader # <<>>
    /\ pc = "publish"
    /\ Cardinality(DOMAIN plots_refreshed) = 2
    /\ NonePublished

\* C16 as written: a thread that holds the manager lock finds the failure
\* registry and the no-key registry as they were when it got the lock.
C16_AsWritten ==
    reader # <<>> =>
        /\ failed_to_open_filenames = reader[1].failed_to_open_filenames
        /\ no_key_filenames = reader[1].no_key_filenames

\* C17 as written: while a thread is in the loop of get_duplicates() over the
\* duplicate registry, the registry is as it was when the loop began.
C17_AsWritten == duplicates_reader # <<>> => plot_filename_paths = duplicates_reader[1]

C19_AsWritten == triggered /\ pc = "wait" /\ refreshing_enabled => needs_refresh

C21_StopTerminates ==
    /\ [][~refreshing_enabled =>
             /\ now' = now
             /\ pc = "wait" /\ pc' # pc => pc' = "none"
             /\ pc = "batch_done" /\ pc' # pc => pc' = "end"]_vars
    /\ ~refreshing_enabled ~> (pc = "none" \/ refreshing_enabled)
C21_Witness ==
    /\ pc = "none"
    /\ ~refreshing_enabled
    /\ stopped
    /\ batch_index = 0
    /\ \E p \in Range(plot_paths) : outcome[p] = "stopped"
    /\ \E p \in Range(plot_paths) : outcome[p] = "opened"

\* C22 as written: both copies of plot x and plot y, whose farmer key is not
\* the node's, are on disk in full, the keys are {Kf} and {Kp}, plots without
\* keys are not opened; a cycle that began with everything empty and
\* completed undisturbed ends with A/x alone in the plot map, A/y alone in
\* the no-key registry, directory B the one duplicate of x, the record of
\* A/x alone in loaded and nothing in removed.
Ay == <<"A", "y">>
Scenario22 ==
    /\ files[Ax] = "full" /\ files[Bx] = "full" /\ files[Ay] = "full"
    /\ farmer_public_keys = {"Kf"} /\ pool_public_keys = {"Kp"}
    /\ ~open_no_key_filenames
    /\ cold /\ stable /\ Completed
Outcome22(published, other) ==
    /\ DOMAIN plots = {published}
    /\ no_key_filenames = {Ay}
    /\ DOMAIN plot_filename_paths = {"x"}
    /\ plot_filename_paths["x"] = <<parent(published), {parent(other)}>>
    /\ get_duplicates(plot_filename_paths) = {other}
    /\ Len(DoneResult.loaded) = 1
    /\ DoneResult.loaded[1] = plots[published]
    /\ DoneResult.loaded[1].prover.filename = str(published)
    /\ DoneResult.removed = {}
C22_AsWritten == Scenario22 => Outcome22(Ax, Bx)
\* C22, amended: the copy of x that comes first in the candidate list is the
\* one published and loaded, the directory of the other copy the duplicate.
FirstOf(p, q) ==
    \E i, j \in 1..Len(plot_paths) : plot_paths[i] = p /\ plot_paths[j] = q /\ i < j
C22_FirstCopyPublished ==
    Scenario22 => IF FirstOf(Ax, Bx) THEN Outcome22(Ax, Bx) ELSE Outcome22(Bx, Ax)
C22_Witness == Scenario22 /\ FirstOf(Bx, Ax) /\ Outcome22(Bx, Ax)

\* C23 as written: while a batch is collected, decoded, post-processed and
\* not yet published, no file of a later batch has been pre-processed.
C23_AsWritten ==
    pc \in {"batch", "publish"} =>
        \A i \in 1..Len(plot_paths) :
            i > batch_end(plot_paths, batch_index) => futures[plot_paths[i]].state # "done"

\* C24 as written: when refresh_batch is called, the batch in any order of
\* its files gives the same plot map, duplicate registry, failure registry,
\* no-key registry and set of loaded records.
Orders(batch) ==
    {perm \in [1..Len(batch) -> Range(batch)] : Range(perm) = Range(batch)}
\* what refresh_batch makes of the batch in the order given
BatchOutcome(batch) ==
    LET m1 == refresh_cached(BatchState, batch, 1, now)
        m2 == refresh_decoded(m1, process_args(batch), 1, now)
    IN  [plots |-> publish(plots, m2.refreshed), pfp |-> m2.pfp, failed |-> m2.failed,
         no_key |-> m2.no_key, loaded |-> Range(m2.loaded)]
BatchDecodes == pc = "batch" /\ BatchCollected /\ ~starmap_raises(DecodeArgs)
OrderFree ==
    \A perm \in Orders(batch_of(plot_paths, batch_index)) :
        BatchOutcome(perm) = BatchOutcome(batch_of(plot_paths, batch_index))
C24_AsWritten == BatchDecodes => OrderFree
\* C24, amended: so it is for a batch in which no two files have the same
\* filename.
DistinctNames == \A p, q \in ThisBatch : name(p) = name(q) => p = q
C24_OrderFreeBatch == BatchDecodes /\ DistinctNames => OrderFree
C24_Witness ==
    /\ BatchDecodes
    /\ DistinctNames
    /\ Cardinality(ThisBatch) = 2
    /\ \A p \in ThisBatch : futures[p].stat_info # NoStat
    /\ \E p \in ThisBatch : futures[p].cache_entry
    /\ \E p \in ThisBatch : ~futures[p].cache_entry
    /\ Cardinality(BatchOutcome(batch_of(plot_paths, batch_index)).loaded) = 2

\* C25: the cache maintenance of a cycle removes an entry exactly when its
\* last use is more than the retention window back and its path is not in
\* the plot map; the entry of a path in the plot map is kept, with the
\* current time as its last use.
C25_Maintenance ==
    [][Cleanup =>
          \A q \in DOMAIN cache_data :
              /\ q \notin DOMAIN cache_data' <=>
                    /\ now - cache_data[q].last_use > ExpiryTicks
                    /\ q \notin DOMAIN plots
              /\ q \in DOMAIN plots =>
                    /\ q \in DOMAIN cache_data'
                    /\ cache_data'[q].last_use = now
              /\ q \in DOMAIN cache_data' /\ q \notin DOMAIN plots =>
                    cache_data'[q] = cache_data[q]]_vars
\* after a long pause the entry of the published A/x is kept and that of the
\* unpublished A/y is gone
C25_Witness ==
    /\ pc = "save"
    /\ now > Epoch + ExpiryTicks
    /\ Ax \in DOMAIN plots
    /\ Ax \in DOMAIN cache_data
    /\ cache_data[Ax].last_use = now
    /\ outcome[Ay] = "opened"
    /\ Ay \notin DOMAIN plots
    /\ Ay \notin DOMAIN cache_data

\* C26 as written: when a cycle has done its cache maintenance, no path that
\* is missing from the candidate list of the cycle has a cache entry.
C26_AsWritten ==
    pc \in {"save", "finish"} => \A q \in DOMAIN cache_data : q \in Range(plot_paths)
\* C26, amended: a cycle leaves the cache entry of a path that is missing from
\* its candidate list as it is, unless the entry's last use is more than the
\* retention window back: then the cache maintenance of the cycle removes it.
Vanished(q) == InCycle /\ q \in DOMAIN cache_data /\ q \notin Range(plot_paths)
C26_KeptUntilExpired ==
    [][\A q \in Paths :
          Vanished(q) =>
              IF Cleanup /\ now - cache_data[q].last_use > ExpiryTicks
              THEN q \notin DOMAIN cache_data'
              ELSE q \in DOMAIN cache_data' /\ cache_data'[q] = cache_data[q]]_vars
C26_Witness ==
    /\ pc = "finish"
    /\ Completed
    /\ \E q \in DOMAIN cache_data :
          /\ q \notin Range(plot_paths)
          /\ files[q] = "absent"
          /\ q \in DoneResult.removed

\* C27 as written: the cache entry of a file that stays on disk but is
\* excluded for a key mismatch (it is in the no-key registry, not in the plot
\* map, and the configured keys still do not permit it) keeps its last_use in every step that keeps the entry: it stays
\* at the time of the decode.
Excluded(q) ==
    /\ files[q] = "full"
    /\ q \in no_key_filenames
    /\ q \notin DOMAIN plots
    /\ ~KeysPermit(q)
C27_AsWritten ==
    [][\A q \in Paths :
          Excluded(q) /\ q \in DOMAIN cache_data /\ q \in DOMAIN cache_data' =>
              cache_data'[q].last_use = cache_data[q].last_use]_vars
\* C27, amended: the last_use of the cache entry of such a file never grows:
\* a step that keeps the entry leaves its last_use as it is or, when the
\* cache is loaded from its file, at the whole second the snapshot kept of
\* it; the cache maintenance that finds the entry older than the retention
\* window removes it; and the cycle that then opens the file decodes it
\* again, into a new entry with last_use = now.
Redecoded(q) ==
    /\ RefreshBatch
    /\ q \in Range(batch_of(plot_paths, batch_index))
    /\ outcome[q] = "opened"
    /\ q \notin DOMAIN cache_data
C27_NeverBumped ==
    [][\A q \in Paths :
          Excluded(q) =>
              /\ q \in DOMAIN cache_data /\ q \in DOMAIN cache_data' =>
                    \/ cache_data'[q].last_use = cache_data[q].last_use
                    \/ /\ start_refreshing
                       /\ cache_data'[q].last_use = int(cache_data[q].last_use)
              /\ q \in DOMAIN cache_data /\ Cleanup
                                         /\ now - cache_data[q].last_use > ExpiryTicks =>
                    q \notin DOMAIN cache_data'
              /\ Redecoded(q) =>
                    /\ q \in DOMAIN cache_data'
                    /\ cache_data'[q].last_use = now]_vars
\* the file A/y, excluded for its farmer key, is decoded again in the cycle
\* after the one whose maintenance removed its expired entry
C27_Witness ==
    /\ pc = "publish"
    /\ files[Bx] # "badmemo"
    /\ now > Epoch + ExpiryTicks
    /\ last_refresh_time > Epoch + ExpiryTicks
    /\ Excluded(Ay)
    /\ Ay \in Range(batch_of(plot_paths, batch_index))
    /\ ~futures[Ay].cache_entry
    /\ Ay \in DOMAIN cache_data
    /\ cache_data[Ay].last_use = now

\* C28 as written: when the tasks of a batch are collected, a file of the
\* batch is among the arguments of the decoding stage if and only if its
\* pre-processing opened it in this cycle (DiskProver() returned, whatever the
\* size test then said) and the cache holds no entry for its path.
Batch == Range(batch_of(plot_paths, batch_index))
C28_AsWritten ==
    pc = "batch" /\ BatchCollected =>
        \A q \in Batch :
            q \in Range(DecodeArgs) <=>
                outcome[q] \in {"opened", "small"} /\ q \notin DOMAIN cache_data
\* C28, amended: a file of the batch is among the arguments of the decoding
\* stage if and only if its pre-processing in this cycle opened it and found
\* it whole (it returned a prover and stat info) and the cache holds no entry
\* for its path. A file with a cache entry, loaded from the snapshot or not,
\* keeps the prover and keys of its entry and is published, if it is, with
\* these keys; a decoded file has an entry with the keys of its memo and
\* last_use = now after the step, the cache is marked changed, and the file is
\* published, if it is, with the keys of that entry.
PublishedWith(q, keys) ==
    q \in DOMAIN plots_refreshed' =>
        /\ plots_refreshed'[q].plot_public_key = keys.plot_public_key
        /\ plots_refreshed'[q].pool_public_key = keys.pool_public_key
        /\ plots_refreshed'[q].pool_contract_puzzle_hash = keys.pool_contract_puzzle_hash
C28_DecodeOnMiss ==
    [][pc = "batch" /\ BatchCollected =>
          \A q \in Batch :
              /\ q \in Range(DecodeArgs) <=>
                    outcome[q] = "opened" /\ q \notin DOMAIN cache_data
              /\ RefreshBatch /\ outcome[q] = "opened" /\ q \in DOMAIN cache_data =>
                    /\ q \in DOMAIN cache_data'
                    /\ cache_data'[q].keys = cache_data[q].keys
                    /\ cache_data'[q].prover = cache_data[q].prover
                    /\ PublishedWith(q, cache_data[q].keys)
              /\ RefreshBatch /\ q \in Range(DecodeArgs) =>
                    /\ q \in DOMAIN cache_data'
                    /\ cache_data'[q].keys = process_memo(futures[q].prover.memo)
                    /\ cache_data'[q].prover = futures[q].prover
                    /\ cache_data'[q].last_use = now
                    /\ cache_changed'
                    /\ PublishedWith(q, cache_data'[q].keys)]_vars
\* after a restart the second batch decodes B/x, which has no entry, and the
\* entry of A/y, loaded from the snapshot with its last_use in whole seconds,
\* was used without decoding
C28_Witness ==
    /\ pc = "publish"
    /\ Bx \in Batch
    /\ outcome[Bx] = "opened"
    /\ ~futures[Bx].cache_entry
    /\ Bx \in DOMAIN cache_data
    /\ cache_changed
    /\ outcome[Ay] = "opened"
    /\ futures[Ay].cache_entry
    /\ Ay \in DOMAIN cache_data
    /\ cache_data[Ay].last_use < Epoch

\* C29: when a cycle completes during which no flag was changed, every path
\* that was in the no-key registry when the cycle listed the plot files, whose
\* farmer key and pool key (if it has one) are in the key sets installed by
\* then, and whose file is still there, whole, is out of the no-key registry;
\* it is in the plot map and in the loaded list of the done result, unless
\* another directory holds its filename: then its directory is registered as
\* a duplicate.
HeldElsewhere(q) ==
    /\ name(q) \in DOMAIN plot_filename_paths
    /\ plot_filename_paths[name(q)][1] # parent(q)
InLoaded(q) == \E i \in 1..Len(DoneResult.loaded) : DoneResult.loaded[i] = plots[q]
C29_KeysInstalled ==
    pc = "finish" /\ Completed /\ stable =>
        \A q \in no_key_before :
            OwnKeys(name(q)) /\ files[q] = "full" =>
                /\ q \notin no_key_filenames
                /\ IF HeldElsewhere(q)
                   THEN parent(q) \in plot_filename_paths[name(q)][2]
                   ELSE q \in DOMAIN plots /\ InLoaded(q)
\* set_public_keys() has installed the farmer key of A/y, which was in the
\* no-key registry, and the cycle after that has published and reported it
C29_Witness ==
    /\ pc = "finish"
    /\ Completed
    /\ stable
    /\ Ay \in no_key_before
    /\ "Kg" \in farmer_public_keys
    /\ Ay \notin no_key_filenames
    /\ Ay \in DOMAIN plots
    /\ InLoaded(Ay)

\* C30: when the scan of a cycle has finished (the pre-processing tasks are
\* about to be submitted), every path in the plot map, every primary and
\* duplicate path of the duplicate registry, every path in the failure
\* registry and every path in the no-key registry is in the plot_paths of the
\* cycle.
Registered ==
    DOMAIN plots
    \cup {<<plot_filename_paths[f][1], f>> : f \in DOMAIN plot_filename_paths}
    \cup get_duplicates(plot_filename_paths)
    \cup DOMAIN failed_to_open_filenames
    \cup no_key_filenames
C30_AsWritten == pc = "submit" => Registered \subseteq Range(plot_paths)

\* what holds of it: the plot map, the duplicate registry and the no-key
\* registry are within plot_paths when the scan has finished; so is the
\* failure registry right after its scan, until a pre-processing task left in
\* the pool by an earlier cycle runs
C30_Scanned ==
    [][/\ pc = "submit" =>
             (Registered \ DOMAIN failed_to_open_filenames) \subseteq Range(plot_paths)
       /\ ScanRegistries =>
             DOMAIN failed_to_open_filenames' \cup no_key_filenames' \subseteq Range(plot_paths)
       /\ pc \in {"scan_locked", "submit"}
             /\ DOMAIN failed_to_open_filenames \subseteq Range(plot_paths) =>
             \/ DOMAIN failed_to_open_filenames' \subseteq Range(plot_paths')
             \/ \E p \in Paths : RunOrphan(p)]_vars

\* C31 as written: whenever the refresh thread is not in a cycle, the paths
\* in the plot map are the paths the observer got in loaded lists and did not
\* get in a removed list afterwards.
C31_AsWritten == ~InCycle => DOMAIN plots = observed
\* what holds of it: when a cycle during which no flag was changed reports
\* done, the observer holds every path the cycle put into the plot map and
\* none of the paths the cycle took out of it
C31_CycleReported ==
    pc = "finish" /\ Completed /\ stable =>
        /\ DOMAIN plots \ DOMAIN before \subseteq observed
        /\ (DOMAIN before \ DOMAIN plots) \cap observed = {}

\* C32: when the published copy p of a filename is missing from plot_paths
\* while a registered duplicate q is in it, the locked scan of the cycle drops
\* the registry entry of the filename, takes p out of the plot map and puts it
\* into removed; and when the cycle reports done (no flag changed meanwhile,
\* q found duplicate by the cycle before, still whole and permitted by the
\* keys) q is the one published copy and
\* the primary of a new entry, p is in the removed list and q in the loaded
\* list of the done result.
Copies(p, q) == p # q /\ name(p) = name(q)
PrimaryGone(p, q) ==
    /\ Copies(p, q)
    /\ p \in DOMAIN plots
    /\ name(p) \in DOMAIN plot_filename_paths
    /\ plot_filename_paths[name(p)][1] = parent(p)
    /\ parent(q) \in plot_filename_paths[name(p)][2]
    /\ p \notin Range(plot_paths)
    /\ q \in Range(plot_paths)
Survivor(p, q) ==
    /\ Copies(p, q)
    /\ p \in DOMAIN before
    /\ outcome_before[q] = "duplicate"
    /\ p \notin Range(plot_paths)
    /\ q \in Range(plot_paths)
    /\ files[q] = "full"
    /\ KeysPermit(q)
C32_SurvivorPublished ==
    [][\A p, q \in Paths :
          /\ ScanPlots /\ PrimaryGone(p, q) =>
                /\ name(p) \notin DOMAIN plot_filename_paths'
                /\ p \notin DOMAIN plots'
                /\ p \in total_result'.removed
          /\ pc = "finish" /\ Completed /\ stable /\ Survivor(p, q) =>
                /\ {r \in DOMAIN plots : name(r) = name(q)} = {q}
                /\ plot_filename_paths[name(q)] = <<parent(q), {}>>
                /\ p \in DoneResult.removed
                /\ InLoaded(q)]_vars
\* A/x and B/x were published and duplicate in the cycles before; the primary
\* has vanished and this cycle has published the other copy from its cache
\* entry
C32_Witness ==
    /\ pc = "finish"
    /\ Completed
    /\ stable
    /\ \E p, q \in Paths :
          /\ Survivor(p, q)
          /\ outcome_before[q] = "duplicate"
          /\ q \in DOMAIN plots
          /\ p \in DoneResult.removed
          /\ InLoaded(q)

\* C33: except between the post-processing of a batch and its publication,
\* every path in the plot map is the primary of the duplicate-registry entry
\* of its filename, every primary of the duplicate registry is in the plot
\* map, and no primary directory is in the duplicate set of its own entry.
C33_PrimariesPublished ==
    pc # "publish" =>
        /\ \A q \in DOMAIN plots :
              /\ name(q) \in DOMAIN plot_filename_paths
              /\ plot_filename_paths[name(q)][1] = parent(q)
        /\ \A f \in DOMAIN plot_filename_paths :
              /\ <<plot_filename_paths[f][1], f>> \in DOMAIN plots
              /\ plot_filename_paths[f][1] \notin plot_filename_paths[f][2]
\* between two batches: a file is published and the entry of a filename
\* holds a primary and a duplicate
C33_Witness ==
    /\ pc = "batch"
    /\ batch_index = 2
    /\ DOMAIN plots # {}
    /\ \E f \in DOMAIN plot_filename_paths : plot_filename_paths[f][2] # {}

\* C34: a step that is not the reset() of the exception handler leaves the
\* record of every published path that is in plot_paths in the plot map, as it
\* is; and the pre-processing task of a published path does not open the file
\* (it neither fails, nor tests the size, nor returns a prover).
C34_PublishedKept ==
    [][\A q \in DOMAIN plots :
          /\ q \in Range(plot_paths) /\ ~(DecodeRaises \/ CallbackRaises) =>
                q \in DOMAIN plots' /\ plots'[q] = plots[q]
          /\ RunTask(q) =>
                /\ outcome'[q] \notin Attempts
                /\ futures'[q].stat_info = NoStat]_vars
\* a cycle has completed with a published file that it did not open, although
\* the file is damaged or smaller now, or its keys are no longer installed
C34_Witness ==
    /\ pc = "finish"
    /\ Completed
    /\ \E q \in DOMAIN plots :
          /\ outcome[q] = "published"
          /\ \/ files[q] \in {"corrupt", "partial", "badmemo"}
             \/ ~KeysPermit(q)

\* C35: the refresh thread holds at most one lock at a time: it holds only
\* the duplicate-registry lock inside post_process_file, and no lock when it
\* calls an observer callback or enters reset() from the exception handler
\* (so that a callback, or reset(), can take the manager lock).
Callback == Started \/ BatchProcessed \/ (End /\ refreshing_enabled) \/ CallbackRaises
C35_OneLockAtATime ==
    [][/\ Cardinality(held) <= 1
       /\ RefreshBatch \/ DecodeRaises =>
             post_process_locks(held) = {"plot_filename_paths_lock"}
       /\ Callback => held = {}
       /\ DecodeRaises \/ CallbackRaises => held = {}]_vars
\* the refresh thread holds the manager lock to publish its second batch,
\* after the callbacks of the first batch and the post-processing of both
C35_Witness ==
    /\ pc = "publish"
    /\ held = {"_lock"}
    /\ batch_index = 2
    /\ BatchEvents # {}
    /\ DOMAIN plots_refreshed # {}

\* ---------------------------------------------------------------- C36
Alive == {t \in DOMAIN threads : is_alive(t)}

\* C36: for any interleaving of start_refreshing() and stop_refreshing()
\* calls, at most one refresh loop thread of a manager is running at any time.
C36_AsWritten == Cardinality(Alive) <= 1

\* Calls made one at a time, by a single caller: at most one refresh loop
\* thread runs.
C36_OneCaller == (calls["b"] = 0) => Cardinality(Alive) <= 1

====
